---------------------------- MODULE Spec2Model ----------------------------
(***************************************************************************)
(* The voxel octree of rust-voxel-data: src/tree/mod.rs (the tree, growth, *)
(* lookup, creation, brush) and src/tree/traversal.rs (the root-to-voxel   *)
(* traversal).  A tree is its exponent lg_size and the root Branches;      *)
(* the root's 8 slots and everything below are kept as `contents', a       *)
(* function from the paths of the Allocated nodes (Inner::Branches) to     *)
(* their optional payload.  A path is the sequence of octant indices from  *)
(* the root; an absent path is an Inner::Empty slot.                       *)
(***************************************************************************)
EXTENDS Integers, Sequences, FiniteSets, TLC

VARIABLES
  lg_size,   \* T.lg_size (u8)
  contents,  \* T.contents: path of an Allocated node |-> its Option<Voxel>
  status,    \* "ok", or how the process ended: "panic" (overflow check) / "hung"
  lastOp,    \* the last call: its name, arguments and return value
  log,       \* the nodes the last brush visited, or the act calls of the last ray, in order
  written,   \* history: Bounds |-> the payload last stored under it
  addressed, \* history: the Bounds passed to get_mut_or_create or visited by a brush
  nOps       \* number of calls made so far

vars == <<lg_size, contents, status, lastOp, log, written, addressed, nOps>>

-----------------------------------------------------------------------------
(* Bounds of the model *)

\* Calls per run.
MaxOps == 2

-----------------------------------------------------------------------------
(* Option<T> *)

None == <<>>
Some(v) == <<v>>
IsSome(o) == o # <<>>
Unwrap(o) == o[1]

-----------------------------------------------------------------------------
(* i32 arithmetic, with every intermediate value inside [-2^31, 2^31).      *)

MinI32 == -2147483647 - 1
I32Bits == 32

\* x << 1 on an i32, the top bit falling off.
Shl1(x) ==
  LET u     == IF x >= 0 THEN x ELSE x - MinI32
      low30 == u % 1073741824
  IN  IF u >= 1073741824 THEN (low30 * 2) + MinI32 ELSE low30 * 2

\* x << k for a shift amount 0 <= k < 32: bits shifted out are lost, with no
\* overflow check in any build.  Only the low 32 - k bits of x survive.
Shl(x, k) ==
  IF k = 0 THEN x
  ELSE IF k = 1 THEN Shl1(x)
  ELSE LET m == 2 ^ (I32Bits - k)
           r == x % m
       IN  IF 2 * r >= m THEN ((r - m) * (2 ^ (k - 1))) * 2
                         ELSE (r * (2 ^ (k - 1))) * 2

\* x >> k (arithmetic) for a shift amount 0 <= k < 32.
Shr(x, k) == IF k >= 31 THEN (IF x < 0 THEN -1 ELSE 0) ELSE x \div (2 ^ k)

\* A shift amount as an unchecked build applies it: masked to the width.
ShiftAmount(k) == k % I32Bits

\* x & m on i32 values.
RECURSIVE BitAnd(_, _)
BitAnd(x, m) ==
  IF x = 0 \/ m = 0 THEN 0
  ELSE IF x = -1 THEN m
  ELSE IF m = -1 THEN x
  ELSE ((x % 2) * (m % 2)) + 2 * BitAnd(x \div 2, m \div 2)

-----------------------------------------------------------------------------
(* bounds::T *)

bounds_new(x, y, z, l) == [x |-> x, y |-> y, z |-> z, lg_size |-> l]

-----------------------------------------------------------------------------
(* Branches / Inner *)

Octants == 0 .. 7

\* The slots in z-major order: lll, hll, lhl, hhl, llh, hlh, lhh, hhh.
Slot_z_major(sx, sy, sz) == sx + 2 * sy + 4 * sz

\* as_array()[sx][sy][sz]: the slots lll, llh, lhl, lhh, hll, hlh, hhl, hhh.
Slot(sx, sy, sz) == 4 * sx + 2 * sy + sz

\* Branches::empty() as the root of a tree: no Allocated node below it.
Branches_empty == << >>

IsBranches(c, p) == p \in DOMAIN c
IsEmpty(c, p) == p \notin DOMAIN c

IsPrefix(p, q) == Len(p) <= Len(q) /\ SubSeq(q, 1, Len(p)) = p

\* Inner::voxel / Inner::voxel_mut of the node at path p.
Inner_voxel(c, p) == IF IsBranches(c, p) THEN c[p] ELSE None

\* `*node = Inner::leaf(v)' for the node at path p: the node becomes a fresh
\* Branches with payload v and 8 Empty slots; what hung below it is dropped.
leaf(c, p, v) ==
  LET keep == {q \in DOMAIN c : ~IsPrefix(p, q)}
  IN  [q \in keep \cup {p} |-> IF q = p THEN v ELSE c[q]]

\* Inner::force_branches of the node at path p.
force_branches(c, p) == IF IsBranches(c, p) THEN c ELSE leaf(c, p, None)


-----------------------------------------------------------------------------
(* T<Voxel>: contains_bounds and grow_to_hold *)

\* tree::new()
new == [lg_size |-> 0, contents |-> Branches_empty]

\* `high' of contains_bounds, as the shifts compute it.
contains_high(self, voxel) ==
  IF voxel.lg_size >= 0
    THEN Shr(Shl(1, ShiftAmount(self.lg_size)), ShiftAmount(voxel.lg_size))
    ELSE Shl(Shl(1, ShiftAmount(self.lg_size)), ShiftAmount(-voxel.lg_size))

\* -high on an i32, as an unchecked build computes it.
WrappingNeg(x) == IF x = MinI32 THEN MinI32 ELSE -x

contains_bounds(self, voxel) ==
  LET high == contains_high(self, voxel)
      low  == WrappingNeg(high)
  IN  /\ voxel.x < high
      /\ voxel.y < high
      /\ voxel.z < high
      /\ voxel.x >= low
      /\ voxel.y >= low
      /\ voxel.z >= low

\* Whether a build with overflow checks panics inside contains_bounds: a shift
\* by 32 or more, or the negation of i32::MIN.
contains_bounds_panics(self, voxel) ==
  LET high == contains_high(self, voxel)
  IN  \/ self.lg_size >= I32Bits
      \/ voxel.lg_size >= I32Bits
      \/ -voxel.lg_size >= I32Bits
      \/ (voxel.x < high /\ voxel.y < high /\ voxel.z < high /\ high = MinI32)

\* The body of grow_to_hold's loop: lg_size += 1 and the doubled root.  Each of
\* the 8 new top-level nodes is a fresh Branches (the at! macro) that holds
\* the old top-level slot c in its diagonally opposite slot 7 - c.
grow_rehome(p) == <<p[1]>> \o SubSeq(p, 3, Len(p))

\* A doubling that builds the 8 new top-level nodes and leaves the old
\* top-level slots behind.
grow_once_dropping(self) ==
  [lg_size  |-> (self.lg_size + 1) % 256,
   contents |-> [p \in {<<o>> : o \in Octants} |-> None]]

grow_once(self) ==
  LET c     == self.contents
      moved == {<<q[1], 7 - q[1]>> \o Tail(q) : q \in DOMAIN c}
      top   == {<<o>> : o \in Octants}
  IN  [lg_size  |-> (self.lg_size + 1) % 256,
       contents |-> [p \in top \cup moved |->
                       IF Len(p) = 1 THEN None ELSE c[grow_rehome(p)]]]

\* The builds of the crate: with overflow checks (debug) and without (release).
Builds == {"debug", "release"}

\* Whether the loop of grow_to_hold, entered at exponent t, never finds
\* contains_bounds true.  With overflow checks it then reaches `1 << 32' and
\* panics; without them the shift amount is masked, the test depends on
\* lg_size % 32 only, and the loop runs forever.
grow_never_holds(t, voxel, build) ==
  IF build = "debug"
    THEN \A e \in t .. (I32Bits - 1) : ~contains_bounds([lg_size |-> e], voxel)
    ELSE \A e \in 0 .. (I32Bits - 1) : ~contains_bounds([lg_size |-> e], voxel)

\* grow_to_hold: [status, self].  status is "ok" when the call returns.
RECURSIVE grow_to_hold(_, _, _)
grow_to_hold(self, voxel, build) ==
  IF build = "debug" /\ contains_bounds_panics(self, voxel)
    THEN [status |-> "panic", self |-> self]
  ELSE IF contains_bounds(self, voxel)
    THEN [status |-> "ok", self |-> self]
  ELSE IF grow_never_holds(self.lg_size, voxel, build)
    THEN [status |-> IF build = "debug" THEN "panic" ELSE "hung", self |-> self]
  ELSE grow_to_hold(grow_once(self), voxel, build)

-----------------------------------------------------------------------------
(* traversal.rs *)

to_voxel_mask(tree, bounds) ==
  LET mask == Shr(Shl(1, ShiftAmount(tree.lg_size)), 1)
  IN  IF bounds.lg_size >= 0
        THEN Shr(mask, ShiftAmount(bounds.lg_size))
        ELSE Shl(mask, ShiftAmount(-bounds.lg_size))

to_voxel_mut(tree, bounds) ==
  [target |-> bounds, mask |-> to_voxel_mask(tree, bounds), first |-> TRUE]

to_voxel(tree, bounds) ==
  [target |-> bounds, mask |-> to_voxel_mask(tree, bounds), first |-> TRUE]

ToVoxelMut_select(trav, x) ==
  IF trav.first
    THEN (IF x >= 0 THEN 1 ELSE 0)
    ELSE (IF BitAnd(x, trav.mask) # 0 THEN 1 ELSE 0)

\* ToVoxelMut::next on the Branches at path p: the traversal afterwards, the
\* selected slot, and whether it is the last one.
ToVoxelMut_next(trav, p) ==
  LET branch == Append(p, Slot(ToVoxelMut_select(trav, trav.target.x),
                               ToVoxelMut_select(trav, trav.target.y),
                               ToVoxelMut_select(trav, trav.target.z)))
      mask   == IF trav.first THEN trav.mask ELSE Shr(trav.mask, 1)
  IN  [trav   |-> [target |-> trav.target, mask |-> mask, first |-> FALSE],
       branch |-> branch,
       last   |-> (mask = 0)]

RECURSIVE ToVoxelMut_last(_, _, _)
ToVoxelMut_last(trav, c, p) ==
  LET r == ToVoxelMut_next(trav, p)
  IN  IF r.last THEN Some(r.branch)
      ELSE IF IsEmpty(c, r.branch) THEN None
      ELSE ToVoxelMut_last(r.trav, c, r.branch)

\* ToVoxel::select with a strict sign test on the first step: a coordinate
\* of 0 goes to the low half.
ToVoxel_select_strict(trav, x) ==
  IF trav.first
    THEN (IF x > 0 THEN 1 ELSE 0)
    ELSE (IF BitAnd(x, trav.mask) # 0 THEN 1 ELSE 0)

ToVoxel_select(trav, x) ==
  IF trav.first
    THEN (IF x >= 0 THEN 1 ELSE 0)
    ELSE (IF BitAnd(x, trav.mask) # 0 THEN 1 ELSE 0)

ToVoxel_next(trav, p) ==
  LET branch == Append(p, Slot(ToVoxel_select(trav, trav.target.x),
                               ToVoxel_select(trav, trav.target.y),
                               ToVoxel_select(trav, trav.target.z)))
      mask   == IF trav.first THEN trav.mask ELSE Shr(trav.mask, 1)
  IN  [trav   |-> [target |-> trav.target, mask |-> mask, first |-> FALSE],
       branch |-> branch,
       last   |-> (mask = 0)]

RECURSIVE ToVoxel_last(_, _, _)
ToVoxel_last(trav, c, p) ==
  LET r == ToVoxel_next(trav, p)
  IN  IF r.last THEN Some(r.branch)
      ELSE IF IsEmpty(c, r.branch) THEN None
      ELSE ToVoxel_last(r.trav, c, r.branch)

-----------------------------------------------------------------------------
(* T<Voxel>: creation and lookup.  Each returns the tree afterwards (self)  *)
(* and the returned value (ret); a returned node is given by its path.      *)

\* The loop of get_mut_or_create below the root: every Step node is forced,
\* the Last one is returned as it is.  A mask that went negative never
\* reaches 0: the loop allocates forever.
RECURSIVE get_mut_or_create_loop(_, _, _)
get_mut_or_create_loop(trav, c, p) ==
  LET r == ToVoxelMut_next(trav, p)
  IN  IF r.last THEN [status |-> "ok", contents |-> c, ret |-> r.branch]
      ELSE IF r.trav.mask < 0 THEN [status |-> "hung", contents |-> c, ret |-> r.branch]
      ELSE get_mut_or_create_loop(r.trav, force_branches(c, r.branch), r.branch)

get_mut_or_create(self, voxel, build) ==
  LET g == grow_to_hold(self, voxel, build)
  IN  IF g.status # "ok" THEN [status |-> g.status, self |-> self, ret |-> << >>]
      ELSE LET t == get_mut_or_create_loop(to_voxel_mut(g.self, voxel),
                                           g.self.contents, << >>)
           IN  [status |-> t.status,
                self   |-> [lg_size |-> g.self.lg_size, contents |-> t.contents],
                ret    |-> t.ret]

\* A get that reaches its node the way get_mut_or_create does, growing the
\* tree and forcing the nodes on its way.
get_forcing(self, voxel) ==
  LET r == get_mut_or_create(self, voxel, "release")
  IN  [self |-> r.self,
       ret  |-> IF r.status = "ok" THEN Inner_voxel(r.self.contents, r.ret) ELSE None]

get(self, voxel) ==
  [self |-> self,
   ret  |-> IF ~contains_bounds(self, voxel) THEN None
            ELSE LET b == ToVoxel_last(to_voxel(self, voxel), self.contents, << >>)
                 IN  IF b = None THEN None ELSE Inner_voxel(self.contents, Unwrap(b))]

get_pointer(self, voxel) ==
  [self |-> self,
   ret  |-> IF ~contains_bounds(self, voxel) THEN None
            ELSE ToVoxel_last(to_voxel(self, voxel), self.contents, << >>)]

get_mut(self, voxel) ==
  [self |-> self,
   ret  |-> IF ~contains_bounds(self, voxel) THEN None
            ELSE LET b == ToVoxelMut_last(to_voxel_mut(self, voxel), self.contents, << >>)
                 IN  IF b = None THEN None ELSE Inner_voxel(self.contents, Unwrap(b))]

get_mut_pointer(self, voxel) ==
  [self |-> self,
   ret  |-> IF ~contains_bounds(self, voxel) THEN None
            ELSE ToVoxelMut_last(to_voxel_mut(self, voxel), self.contents, << >>)]

-----------------------------------------------------------------------------
(* Brush application.  A brush is [bounds: [min, max], min_lg_size]; the    *)
(* mosaic is only handed on to the Voxel's brush operation.  The callbacks  *)
(* made for a node are recorded in call order as events [ev, bounds, voxel]. *)

brush_overlaps(voxel, brush) ==
  IF voxel.lg_size >= 0
    THEN LET min == [x |-> Shl(voxel.x, ShiftAmount(voxel.lg_size)),
                     y |-> Shl(voxel.y, ShiftAmount(voxel.lg_size)),
                     z |-> Shl(voxel.z, ShiftAmount(voxel.lg_size))]
             w   == Shl(1, ShiftAmount(voxel.lg_size))
         IN  /\ min.x < brush.max.x
             /\ min.y < brush.max.y
             /\ min.z < brush.max.z
             /\ brush.min.x < min.x + w
             /\ brush.min.y < min.y + w
             /\ brush.min.z < min.z + w
    ELSE LET lg  == ShiftAmount(-voxel.lg_size)
             max == [x |-> Shl(brush.max.x, lg),
                     y |-> Shl(brush.max.y, lg),
                     z |-> Shl(brush.max.z, lg)]
             min == [x |-> Shl(brush.min.x, lg),
                     y |-> Shl(brush.min.y, lg),
                     z |-> Shl(brush.min.z, lg)]
         IN  /\ voxel.x < max.x
             /\ voxel.y < max.y
             /\ voxel.z < max.z
             /\ min.x <= voxel.x
             /\ min.y <= voxel.y
             /\ min.z <= voxel.z

\* The Voxel capability `brush' of the tree's own Voxel type (i32): the
\* payload becomes 999 whatever the bounds and the brush.
Erased == 999
Voxel_brush(this, bounds, brush) == Erased

\* The generate callbacks the model passes: one that declines everywhere and
\* one that returns a voxel for the voxels of lg_size >= 0 only.
Generators == {<<"decline", 1>>, <<"coarse", 2>>}

generate(gen, bounds) ==
  IF gen[1] = "always" \/ (gen[1] = "coarse" /\ bounds.lg_size >= 0)
    THEN Some(gen[2])
    ELSE None

Event(ev, bounds, v) == [ev |-> ev, bounds |-> bounds, voxel |-> v]

\* on_branches storing the generated voxel as generate returned it, without
\* the Voxel's brush operation.
on_branches_data_unbrushed(data, bounds, brush, gen) ==
  IF data = None
    THEN LET g == generate(gen, bounds)
         IN  IF g = None
               THEN [data  |-> None,
                     calls |-> <<Event("generate", bounds, None)>>]
               ELSE [data  |-> g,
                     calls |-> <<Event("generate", bounds, None),
                                 Event("on_voxel_update", bounds, g)>>]
    ELSE LET v == Voxel_brush(Unwrap(data), bounds, brush)
         IN  [data  |-> Some(v),
              calls |-> <<Event("voxel_brush", bounds, data),
                          Event("on_voxel_update", bounds, Some(v))>>]

\* on_branches brushing only the voxel it has just generated: a payload the
\* node already holds is left as it is.
on_branches_data_fresh_only(data, bounds, brush, gen) ==
  IF data = None
    THEN LET g == generate(gen, bounds)
         IN  IF g = None
               THEN [data  |-> None,
                     calls |-> <<Event("generate", bounds, None)>>]
               ELSE LET v == Voxel_brush(Unwrap(g), bounds, brush)
                    IN  [data  |-> Some(v),
                         calls |-> <<Event("generate", bounds, None),
                                     Event("voxel_brush", bounds, g),
                                     Event("on_voxel_update", bounds, Some(v))>>]
    ELSE [data |-> data, calls |-> << >>]

\* The first part of on_branches for a node whose payload is `data': the
\* payload afterwards and the callbacks made, in call order.
on_branches_data(data, bounds, brush, gen) ==
  IF data = None
    THEN LET g == generate(gen, bounds)
         IN  IF g = None
               THEN [data  |-> None,
                     calls |-> <<Event("generate", bounds, None)>>]
               ELSE LET v == Voxel_brush(Unwrap(g), bounds, brush)
                    IN  [data  |-> Some(v),
                         calls |-> <<Event("generate", bounds, None),
                                     Event("voxel_brush", bounds, g),
                                     Event("on_voxel_update", bounds, Some(v))>>]
    ELSE LET v == Voxel_brush(Unwrap(data), bounds, brush)
         IN  [data  |-> Some(v),
              calls |-> <<Event("voxel_brush", bounds, data),
                          Event("on_voxel_update", bounds, Some(v))>>]

\* Bounds of the child in slot i: the lowest branch is (x << 1, y << 1,
\* z << 1, lg_size - 1), and the h slots add 1 on their axis.
child_bounds(bounds, i) ==
  bounds_new(Shl1(bounds.x) + (i \div 4),
             Shl1(bounds.y) + ((i \div 2) % 2),
             Shl1(bounds.z) + (i % 2),
             bounds.lg_size - 1)

\* The recurse! calls, were there none for hhh.
InSlotOrder_without_hhh(f) == f[0] \o f[1] \o f[2] \o f[3] \o f[4] \o f[5] \o f[6]

\* The recurse! calls of on_branches, one per slot, in the order lll, llh,
\* lhl, lhh, hll, hlh, hhl, hhh: what they did, one after the other.
InSlotOrder(f) == f[0] \o f[1] \o f[2] \o f[3] \o f[4] \o f[5] \o f[6] \o f[7]

\* Inner::brush on the node at path p of the tree c: the nodes it visits, in
\* visit order, as [path, bounds, data, calls].  A visited node is Allocated
\* afterwards with payload `data'.  The node itself comes first, then the
\* recursion into its slots lll .. hhh in that order; the slots are disjoint
\* subtrees, so each recursion reads the tree as it was before the call.
RECURSIVE Inner_brush(_, _, _, _, _)
Inner_brush(c, p, bounds, brush, gen) ==
  IF ~brush_overlaps(bounds, brush.bounds) THEN << >>
  ELSE IF bounds.lg_size < brush.min_lg_size THEN << >>
  ELSE LET own == on_branches_data(Inner_voxel(c, p), bounds, brush, gen)
           recurse(i) == Inner_brush(c, Append(p, i), child_bounds(bounds, i), brush, gen)
           below == [i \in Octants |-> recurse(i)]
       IN  <<[path |-> p, bounds |-> bounds, data |-> own.data, calls |-> own.calls]>>
             \o InSlotOrder(below)

\* Bounds of the top-level slot i, as T::brush passes them.
top_bounds(self, i) ==
  bounds_new((i \div 4) - 1, ((i \div 2) % 2) - 1, (i % 2) - 1, self.lg_size)

\* T::brush: the tree afterwards and the visits made, in order.
T_brush(self, brush, gen) ==
  LET c == self.contents
      recurse(i) == Inner_brush(c, <<i>>, top_bounds(self, i), brush, gen)
      below == [i \in Octants |-> recurse(i)]
      visits == InSlotOrder(below)
      touched == {visits[k].path : k \in 1 .. Len(visits)}
      dataOf(q) == visits[CHOOSE k \in 1 .. Len(visits) : visits[k].path = q].data
  IN  [self |-> [lg_size  |-> self.lg_size,
                 contents |-> [q \in DOMAIN c \cup touched |->
                                 IF q \in touched THEN dataOf(q) ELSE c[q]]],
       log  |-> visits]

-----------------------------------------------------------------------------
(* Ray casting.  Lengths are in eighths of a unit, so that the voxels down   *)
(* to lg_size -3 have integer corners.  A ray is [origin, dir], both triples, *)
(* with every dir component in {-1, 0, 1}; a time of impact is the distance   *)
(* travelled on any axis that moves.                                          *)

RayUnit == 8

\* Width, low corner and high corner (on axis a) of a voxel, in eighths.
Width(bounds) ==
  IF bounds.lg_size >= 0 THEN RayUnit * (2 ^ bounds.lg_size)
  ELSE RayUnit \div (2 ^ (-bounds.lg_size))
Coord(bounds, a) == IF a = 1 THEN bounds.x ELSE IF a = 2 THEN bounds.y ELSE bounds.z
Low(bounds, a) == Coord(bounds, a) * Width(bounds)
High(bounds, a) == Low(bounds, a) + Width(bounds)

Only(S) == CHOOSE x \in S : TRUE

\* When the ray leaves the voxel on axis a (for an axis that moves).
ExitTime(bounds, ray, a) ==
  IF ray.dir[a] > 0 THEN High(bounds, a) - ray.origin[a]
  ELSE ray.origin[a] - Low(bounds, a)

\* The face through which the ray leaves the voxel: the time of impact and
\* the axis, the first exit among the axes that move.
Exit(bounds, ray) ==
  LET moving == {a \in 1 .. 3 : ray.dir[a] # 0}
      toi    == Only({ExitTime(bounds, ray, a) : a \in
                       {a \in moving : \A a2 \in moving :
                          ExitTime(bounds, ray, a) <= ExitTime(bounds, ray, a2)}})
      axis   == CHOOSE a \in moving :
                  /\ ExitTime(bounds, ray, a) = toi
                  /\ \A a2 \in moving : ExitTime(bounds, ray, a2) = toi => a <= a2
  IN  [toi |-> toi, axis |-> axis]

\* The octant of the voxel that holds the point the ray has reached at time
\* t: per axis the half the point lies in, and on the middle plane the half
\* the ray is heading for.
EntryCoords(bounds, ray, t) ==
  [a \in 1 .. 3 |->
     LET at  == ray.origin[a] + (ray.dir[a] * t)
         mid == Low(bounds, a) + (Width(bounds) \div 2)
     IN  IF at > mid THEN 1
         ELSE IF at < mid THEN 0
         ELSE IF ray.dir[a] >= 0 THEN 1 ELSE 0]

\* The act callbacks the model passes: return the first voxel hit, return
\* nothing ever, return the first voxel whose payload is 2.
Acts == {"first", "none", "two"}
Act(act, bounds, v) ==
  IF act = "first" \/ (act = "two" /\ v = 2) THEN Some(<<bounds, v>>) ELSE None

\* make_bounds: Bounds of the slot of the root (T::cast_ray) or of a node.
MakeBounds(mk, slot) ==
  IF mk.top THEN top_bounds([lg_size |-> mk.lg_size], slot)
  ELSE child_bounds(mk.bounds, slot)

\* cast_ray_branches / cast_ray of the raycast module: the slots of one
\* Branches the ray passes through, from the one it enters (coords) on, each
\* next one across the face the ray left the last through.  A node with a
\* payload is handed to act; a present result ends the search (Ok), else the
\* search goes on inside the node and then behind it.  The result is
\* [hit, ret, exit, calls]: calls are the act calls made, in order.
RECURSIVE cast_ray_branches(_, _, _, _, _, _, _)
RECURSIVE cast_ray_node(_, _, _, _, _, _)
cast_ray_branches(c, p, mk, ray, entry, coords, act) ==
  LET slot   == Slot(coords[1], coords[2], coords[3])
      after(r) ==
        IF r.hit THEN r
        ELSE LET a  == r.exit.axis
                 nc == coords[a] + ray.dir[a]
             IN  IF nc \notin {0, 1} THEN r
                 ELSE Only({[rest EXCEPT !.calls = r.calls \o rest.calls] :
                             rest \in {cast_ray_branches(c, p, mk, ray,
                                         Some(r.exit.toi),
                                         [coords EXCEPT ![a] = nc], act)}})
  IN  Only({after(r) : r \in {cast_ray_node(c, Append(p, slot),
                                            MakeBounds(mk, slot), ray, entry, act)}})

cast_ray_node(c, q, bounds, ray, entry, act) ==
  IF IsEmpty(c, q)
    THEN [hit |-> FALSE, ret |-> None, exit |-> Exit(bounds, ray), calls |-> << >>]
  ELSE LET data == c[q]
           res  == IF data = None THEN None ELSE Act(act, bounds, Unwrap(data))
           own  == IF data = None THEN << >>
                   ELSE <<[bounds |-> bounds, voxel |-> Unwrap(data), result |-> res]>>
           t    == IF entry = None THEN 0 ELSE Unwrap(entry)
       IN  IF res # None
             THEN [hit |-> TRUE, ret |-> res, exit |-> Exit(bounds, ray), calls |-> own]
             ELSE Only({[sub EXCEPT !.calls = own \o sub.calls] :
                         sub \in {cast_ray_branches(c, q,
                                    [top |-> FALSE, bounds |-> bounds], ray, entry,
                                    EntryCoords(bounds, ray, t), act)}})

\* cast_ray, were the first slot chosen by where the ray heads, not by where
\* it starts.
cast_ray_by_direction(self, ray, act) ==
  LET coords == [a \in 1 .. 3 |-> IF ray.dir[a] >= 0 THEN 1 ELSE 0]
      r == Only({x : x \in {cast_ray_branches(self.contents, << >>,
                              [top |-> TRUE, lg_size |-> self.lg_size],
                              ray, None, coords, act)}})
  IN  [self |-> self, ret |-> IF r.hit THEN r.ret ELSE None, calls |-> r.calls]

\* T::cast_ray: the search starts in the slot of the root given by the sign
\* of the ray origin on each axis; Ok(r) becomes Some(r), Err(_) None.
cast_ray(self, ray, act) ==
  LET coords == [a \in 1 .. 3 |-> IF ray.origin[a] >= 0 THEN 1 ELSE 0]
      r == Only({x : x \in {cast_ray_branches(self.contents, << >>,
                              [top |-> TRUE, lg_size |-> self.lg_size],
                              ray, None, coords, act)}})
  IN  [self |-> self, ret |-> IF r.hit THEN r.ret ELSE None, calls |-> r.calls]

-----------------------------------------------------------------------------
(* The calls a run makes *)

Payloads == {1, 2}
Triples  == {<<0, 0, 0>>, <<-1, -1, -1>>, <<1, -2, 0>>}
LgSizes  == {-1, 0, 1}

\* A voxel 2^-31 wide: no exponent of the tree makes the 32-bit `high' of
\* contains_bounds hold it.
ExtremeBounds == bounds_new(0, 0, 0, -31)

BoundsSet ==
  {bounds_new(t[1], t[2], t[3], l) : t \in Triples, l \in LgSizes} \cup {ExtremeBounds}

Point(x, y, z) == [x |-> x, y |-> y, z |-> z]
Boxes ==
  { [min |-> Point(0, 0, 0),  max |-> Point(1, 1, 1)],
    [min |-> Point(-1, 0, 1), max |-> Point(1, 1, 2)],
    [min |-> Point(1, 1, 1),  max |-> Point(1, 1, 1)],
    [min |-> Point(1, -2, 0), max |-> Point(2, -1, 1)] }
Brushes == [bounds : Boxes, min_lg_size : LgSizes]

NoArg == << >>
\* A call: its name, its Bounds or brush argument, the payload it stores, the
\* value it returns, and (history) the payload last stored under the same
\* Bounds before it.
Op(name, bounds, brush, val, ret, prev) ==
  [op |-> name, bounds |-> bounds, brush |-> brush, val |-> val, ret |-> ret,
   prev |-> prev]

Prev(b) == IF b \in DOMAIN written THEN Some(written[b]) ELSE None

Self == [lg_size |-> lg_size, contents |-> contents]

\* written, with payload v recorded under Bounds b.
Store(w, b, v) == [k \in DOMAIN w \cup {b} |-> IF k = b THEN v ELSE w[k]]

\* written, with the payloads a brush call stored: one per visited node that
\* holds a payload afterwards.
StoreUpdates(w, visits) ==
  LET stored == {k \in 1 .. Len(visits) : IsSome(visits[k].data)}
      keys   == {visits[k].bounds : k \in stored}
      valOf(b) == Unwrap(visits[CHOOSE k \in stored : visits[k].bounds = b].data)
  IN  [b \in DOMAIN w \cup keys |-> IF b \in keys THEN valOf(b) ELSE w[b]]

Init ==
  /\ lg_size = new.lg_size
  /\ contents = new.contents
  /\ status = "ok"
  /\ lastOp = Op("new", NoArg, NoArg, None, None, None)
  /\ log = << >>
  /\ written = << >>
  /\ addressed = {}
  /\ nOps = 0

CanCall == status = "ok" /\ nOps < MaxOps

GrowToHold(b) ==
  /\ CanCall
  /\ \E r \in {grow_to_hold(Self, b, build) : build \in Builds} :
       /\ lg_size' = r.self.lg_size
       /\ contents' = r.self.contents
       /\ status' = r.status
  /\ lastOp' = Op("grow_to_hold", b, NoArg, None, None, None)
  /\ log' = << >>
  /\ nOps' = nOps + 1
  /\ UNCHANGED <<written, addressed>>

GetMutOrCreate(b) ==
  /\ CanCall
  /\ \E r \in {get_mut_or_create(Self, b, build) : build \in Builds} :
       /\ lg_size' = r.self.lg_size
       /\ contents' = r.self.contents
       /\ status' = r.status
       /\ lastOp' = Op("get_mut_or_create", b, NoArg, None,
                       IF r.status = "ok" THEN Some(r.ret) ELSE None, None)
       /\ addressed' = IF r.status = "ok" THEN addressed \cup {b} ELSE addressed
  /\ log' = << >>
  /\ nOps' = nOps + 1
  /\ UNCHANGED written

\* `*tree.get_mut_or_create(&b) = Inner::leaf(Some(v))', the write of the tests.
Write(b, v) ==
  /\ CanCall
  /\ \E r \in {get_mut_or_create(Self, b, build) : build \in Builds} :
       /\ lg_size' = r.self.lg_size
       /\ status' = r.status
       /\ IF r.status = "ok"
            THEN /\ contents' = leaf(r.self.contents, r.ret, Some(v))
                 /\ written' = Store(written, b, v)
                 /\ lastOp' = Op("write", b, NoArg, Some(v), Some(r.ret), Prev(b))
            ELSE /\ contents' = r.self.contents
                 /\ written' = written
                 /\ lastOp' = Op("write", b, NoArg, Some(v), None, Prev(b))
       /\ addressed' = IF r.status = "ok" THEN addressed \cup {b} ELSE addressed
  /\ log' = << >>
  /\ nOps' = nOps + 1

Read(name, r, b) ==
  /\ CanCall
  /\ lg_size' = r.self.lg_size
  /\ contents' = r.self.contents
  /\ lastOp' = Op(name, b, NoArg, None, r.ret, None)
  /\ log' = << >>
  /\ nOps' = nOps + 1
  /\ UNCHANGED <<status, written, addressed>>

Get(b) == Read("get", get(Self, b), b)
GetPointer(b) == Read("get_pointer", get_pointer(Self, b), b)
GetMut(b) == Read("get_mut", get_mut(Self, b), b)
GetMutPointer(b) == Read("get_mut_pointer", get_mut_pointer(Self, b), b)

Brush(br, gen) ==
  /\ CanCall
  /\ LET r == T_brush(Self, br, gen)
     IN  /\ lg_size' = r.self.lg_size
         /\ contents' = r.self.contents
         /\ log' = r.log
         /\ written' = StoreUpdates(written, r.log)
         /\ addressed' = addressed \cup {log'[k].bounds : k \in 1 .. Len(log')}
  /\ lastOp' = Op("brush", NoArg, [brush |-> br, gen |-> gen], None, None, None)
  /\ nOps' = nOps + 1
  /\ UNCHANGED status

Next ==
  \/ \E b \in BoundsSet : GrowToHold(b)
  \/ \E b \in BoundsSet : GetMutOrCreate(b)
  \/ \E b \in BoundsSet, v \in Payloads : Write(b, v)
  \/ \E b \in BoundsSet : Get(b)
  \/ \E b \in BoundsSet : GetPointer(b)
  \/ \E b \in BoundsSet : GetMut(b)
  \/ \E b \in BoundsSet : GetMutPointer(b)
  \/ \E br \in Brushes, gen \in Generators : Brush(br, gen)

Spec == Init /\ [][Next]_vars

\* The rays cast: from a point of the high or of the low corner octant of the
\* root, up or down the diagonal.  No two axes of such a ray cross a face of
\* a voxel of lg_size >= -1 at the same time.
Origins == {<<1, 2, 3>>, <<-3, -2, -1>>}
Directions == {<<1, 1, 1>>, <<-1, -1, -1>>}
Rays == [origin : Origins, dir : Directions]

\* cast_ray takes &self: the tree is left alone, so that a ray cast right
\* after another meets what a ray cast in its place meets, and the model casts
\* one ray between two writes.  log holds the act calls.
CastRay(ray, act) ==
  /\ status = "ok" /\ lastOp.op # "cast_ray"
  /\ LET r == cast_ray(Self, ray, act)
     IN  /\ lastOp' = Op("cast_ray", NoArg, [ray |-> ray, act |-> act], None, r.ret, None)
         /\ log' = r.calls
  /\ UNCHANGED <<lg_size, contents, status, written, addressed, nOps>>

\* Trees filled by writes, and rays cast through them.
NextRay ==
  \/ \E b \in BoundsSet, v \in Payloads : Write(b, v)
  \/ \E ray \in Rays, act \in Acts : CastRay(ray, act)

SpecRay == Init /\ [][NextRay]_vars

-----------------------------------------------------------------------------
(* Properties *)

SelfNext == [lg_size |-> lg_size', contents |-> contents']

\* What get returns for b in the current tree.
Lookup(b) == get(Self, b).ret

\* C1: after get_mut_or_create(B) and storing payload v in the returned
\* node, get(B) returns v, for Bounds of every sign and exponent, whether or
\* not the write grew the tree; a second write to B replaces the first.
C1_WriteThenRead ==
  (lastOp.op = "write" /\ status = "ok") => Lookup(lastOp.bounds) = lastOp.val

\* A write that replaced a different payload stored under the same Bounds.
C1_Witness ==
  /\ lastOp.op = "write" /\ status = "ok"
  /\ IsSome(lastOp.prev) /\ lastOp.prev # lastOp.val
  /\ Lookup(lastOp.bounds) = lastOp.val

\* A write at a negative coordinate that grew the new tree.
C1_WitnessGrown ==
  /\ lastOp.op = "write" /\ status = "ok"
  /\ lastOp.bounds.y < 0
  /\ lg_size > 0 /\ nOps = 1
  /\ Lookup(lastOp.bounds) = lastOp.val

\* C2: a payload readable at Bounds B before grow_to_hold is readable at B,
\* the same, after it - whatever the growth, for negative b.lg_size and
\* for a tree of lg_size 0 as well.
C2_GrowthTransparent ==
  [][(lastOp'.op = "grow_to_hold" /\ status' = "ok") =>
       \A b \in DOMAIN written :
         Lookup(b) = Some(written[b]) => get(SelfNext, b).ret = Some(written[b])]_vars

\* C3: a payload written at (x, y, z, L) is not returned for (x, y, z, L')
\* with L' # L when nothing was written there.
C3_ResolutionExact ==
  \A b \in DOMAIN written : \A l \in LgSizes :
    LET other == bounds_new(b.x, b.y, b.z, l)
    IN  (l # b.lg_size /\ other \notin DOMAIN written) => Lookup(other) = None

\* C4: a write at Bounds B leaves what get returns for every other Bounds
\* written before unchanged, finer ones inside B and coarser ones around B
\* included.
C4_WritesIndependent ==
  [][(lastOp'.op = "write" /\ status' = "ok") =>
       \A b \in DOMAIN written \ {lastOp'.bounds} :
         get(SelfNext, b).ret = Lookup(b)]_vars

ReadOps == {"get", "get_pointer", "get_mut", "get_mut_pointer"}

\* The slots from the root down to b's node, as a walk that forces every node
\* on its way selects them.
PathTo(self, b) ==
  get_mut_or_create_loop(to_voxel_mut(self, b), self.contents, << >>).ret

\* An Empty node lies on the way to b, above b's own node.
EmptyBefore(self, b) ==
  LET q == PathTo(self, b)
  IN  \E k \in 1 .. (Len(q) - 1) : IsEmpty(self.contents, SubSeq(q, 1, k))

\* C5: get, get_mut, get_pointer and get_mut_pointer leave lg_size, the
\* Allocated nodes and every payload as they were, for every Bounds; when
\* contains_bounds(b) is false or an Empty node is met before the target they
\* return absent.
C5_ReadsChangeNothing ==
  [][lastOp'.op \in ReadOps =>
       /\ lg_size' = lg_size
       /\ contents' = contents
       /\ (~contains_bounds(Self, lastOp'.bounds) \/ EmptyBefore(Self, lastOp'.bounds))
            => lastOp'.ret = None]_vars

\* A read of a contained Bounds, in a tree that holds a payload, that met an
\* Empty node on its way and returned absent.
C5_Witness ==
  /\ lastOp.op \in ReadOps
  /\ \E q \in DOMAIN contents : IsSome(contents[q])
  /\ contains_bounds(Self, lastOp.bounds)
  /\ EmptyBefore(Self, lastOp.bounds)
  /\ lastOp.ret = None

\* A read of a Bounds outside a tree that holds a payload.
C5_WitnessOutside ==
  /\ lastOp.op \in ReadOps
  /\ \E q \in DOMAIN contents : IsSome(contents[q])
  /\ ~contains_bounds(Self, lastOp.bounds)
  /\ lastOp.ret = None

\* C6: get_mut_or_create(b) grows the tree to contain b, materializes every
\* Empty node on the path to b, and returns the node at b's exact resolution,
\* which is Allocated, never Empty.
C6_ReturnsAllocated ==
  (lastOp.op = "get_mut_or_create" /\ status = "ok") =>
    LET q == Unwrap(lastOp.ret)
    IN  /\ contains_bounds(Self, lastOp.bounds)
        /\ Len(q) = (lg_size - lastOp.bounds.lg_size) + 1
        /\ \A k \in 1 .. Len(q) : IsBranches(contents, SubSeq(q, 1, k))

\* C7: grow_to_hold(b) returns for every Bounds b; contains_bounds(b) holds
\* then, lg_size is the smallest exponent not below the old one for which it
\* holds, and nothing changes when b was contained already.
C7_GrowToHold ==
  [][lastOp'.op = "grow_to_hold" =>
       /\ status' = "ok"
       /\ contains_bounds(SelfNext, lastOp'.bounds)
       /\ lg_size' >= lg_size
       /\ \A e \in lg_size .. (lg_size' - 1) :
            ~contains_bounds([lg_size |-> e], lastOp'.bounds)
       /\ contains_bounds(Self, lastOp'.bounds)
            => (lg_size' = lg_size /\ contents' = contents)]_vars

\* Whether every coordinate of b lies in [-H, H), H being 2^t rescaled to b's
\* resolution, in unbounded arithmetic.  2^31 and more exceeds every i32.
InCube(t, b) ==
  LET d == t - b.lg_size
      H == IF d < 0 THEN 0 ELSE 2 ^ d
  IN  \/ d >= I32Bits - 1
      \/ /\ -H <= b.x /\ b.x < H
         /\ -H <= b.y /\ b.y < H
         /\ -H <= b.z /\ b.z < H

\* C8: contains_bounds(b) on a tree of exponent T is true iff every
\* coordinate of b lies in [-H, H), H being 2^T rescaled to b's resolution,
\* for coarser and finer b alike; it is false for every b with b.lg_size > T.
C8_ContainsBounds ==
  \A b \in BoundsSet :
    /\ contains_bounds(Self, b) <=> InCube(lg_size, b)
    /\ b.lg_size > lg_size => ~contains_bounds(Self, b)

\* Bounds of the node at path q in a tree of exponent t.
RECURSIVE PathBounds(_, _)
PathBounds(t, q) ==
  IF Len(q) = 1 THEN top_bounds([lg_size |-> t], q[1])
  ELSE child_bounds(PathBounds(t, SubSeq(q, 1, Len(q) - 1)), q[Len(q)])

Max(a, b) == IF a >= b THEN a ELSE b
Min(a, b) == IF a <= b THEN a ELSE b

\* Whether the half-open interval [lo, hi) meets [bmin, bmax).
Meets(lo, hi, bmin, bmax) == Max(lo, bmin) < Min(hi, bmax)

\* Whether the cube of node Bounds nb and the half-open box meet, in unbounded
\* arithmetic: both are brought to the finer of the two resolutions.
GeoOverlap(nb, box) ==
  LET s == IF nb.lg_size >= 0 THEN 2 ^ nb.lg_size ELSE 1
      r == IF nb.lg_size >= 0 THEN 1 ELSE 2 ^ (-nb.lg_size)
  IN  /\ Meets(nb.x * s, (nb.x + 1) * s, box.min.x * r, box.max.x * r)
      /\ Meets(nb.y * s, (nb.y + 1) * s, box.min.y * r, box.max.y * r)
      /\ Meets(nb.z * s, (nb.z + 1) * s, box.min.z * r, box.max.z * r)

Visited(l) == {l[k].path : k \in 1 .. Len(l)}

\* The Bounds the callbacks of a brush call were given.
CallbackBounds(l) ==
  UNION {{l[k].calls[j].bounds : j \in 1 .. Len(l[k].calls)} : k \in 1 .. Len(l)}

Pruned(nb, br) == ~GeoOverlap(nb, br.bounds) \/ nb.lg_size < br.min_lg_size

\* C9: during a brush call a node whose Bounds does not overlap
\* brush.bounds, or whose lg_size is below brush.min_lg_size, is not
\* allocated, not passed to generate, keeps its payload, triggers no
\* on_voxel_update, and has no visited descendant; the overlap test the call
\* applies is the half-open box intersection of the node's cube with
\* brush.bounds, for node lg_size of either sign.
C9_BrushPruning ==
  [][lastOp'.op = "brush" =>
       LET br    == lastOp'.brush.brush
           nodes == DOMAIN contents \cup DOMAIN contents' \cup Visited(log')
       IN  /\ \A q \in nodes :
                LET nb == PathBounds(lg_size, q)
                IN  Pruned(nb, br) =>
                      /\ IsBranches(contents', q) => IsBranches(contents, q)
                      /\ Inner_voxel(contents', q) = Inner_voxel(contents, q)
                      /\ nb \notin CallbackBounds(log')
                      /\ \A v \in Visited(log') : ~IsPrefix(q, v)
           /\ \A q \in nodes :
                LET nb == PathBounds(lg_size, q)
                IN  brush_overlaps(nb, br.bounds) <=> GeoOverlap(nb, br.bounds)]_vars

CountCalls(calls, ev) == Cardinality({j \in 1 .. Len(calls) : calls[j].ev = ev})

\* C10: for every node a brush call visits: if its payload was absent
\* generate is called exactly once, and the payload stays absent with no
\* on_voxel_update when generate declines; a generated voxel is brushed by the
\* Voxel operation and stored; on_voxel_update fires exactly once, with the
\* node's Bounds, for exactly the visited nodes that hold a payload after the
\* call; generate is never called for a node that had a payload.
C10_BrushVisit ==
  [][lastOp'.op = "brush" =>
       LET br  == lastOp'.brush.brush
           gen == lastOp'.brush.gen
       IN  \A k \in 1 .. Len(log') :
             LET v    == log'[k]
                 pre  == Inner_voxel(contents, v.path)
                 post == Inner_voxel(contents', v.path)
                 g    == generate(gen, v.bounds)
                 gens == CountCalls(v.calls, "generate")
                 ups  == CountCalls(v.calls, "on_voxel_update")
             IN  /\ v.bounds = PathBounds(lg_size, v.path)
                 /\ brush_overlaps(v.bounds, br.bounds)
                 /\ v.bounds.lg_size >= br.min_lg_size
                 /\ \A j \in 1 .. Len(log') : log'[j].path = v.path => j = k
                 /\ gens = (IF pre = None THEN 1 ELSE 0)
                 /\ (pre = None /\ g = None) => (post = None /\ ups = 0)
                 /\ (pre = None /\ g # None) =>
                      post = Some(Voxel_brush(Unwrap(g), v.bounds, br))
                 /\ pre # None => post = Some(Voxel_brush(Unwrap(pre), v.bounds, br))
                 /\ ups = (IF post # None THEN 1 ELSE 0)
                 /\ \A j \in 1 .. Len(v.calls) :
                      /\ v.calls[j].bounds = v.bounds
                      /\ v.calls[j].ev = "on_voxel_update" => v.calls[j].voxel = post]_vars

\* A brush call that visited a node holding a payload (no generate, one
\* update) and a node where generate declined (no update, payload absent).
C10_Witness ==
  /\ lastOp.op = "brush"
  /\ \E k \in 1 .. Len(log) :
       /\ CountCalls(log[k].calls, "generate") = 0
       /\ CountCalls(log[k].calls, "on_voxel_update") = 1
       /\ Inner_voxel(contents, log[k].path) = Some(Erased)
  /\ \E k \in 1 .. Len(log) :
       /\ CountCalls(log[k].calls, "generate") = 1
       /\ CountCalls(log[k].calls, "on_voxel_update") = 0
       /\ Inner_voxel(contents, log[k].path) = None

\* A brush call that generated, brushed and stored a voxel in a node that was
\* Empty.
C10_WitnessGenerated ==
  /\ lastOp.op = "brush"
  /\ \E k \in 1 .. Len(log) :
       /\ Len(log[k].path) > 1
       /\ CountCalls(log[k].calls, "generate") = 1
       /\ CountCalls(log[k].calls, "on_voxel_update") = 1
       /\ Inner_voxel(contents, log[k].path) = Some(Erased)

\* The half-open box that is exactly the region of a Bounds of lg_size >= 0.
RegionBox(b) ==
  LET w == 2 ^ b.lg_size
  IN  [min |-> Point(b.x * w, b.y * w, b.z * w),
       max |-> Point((b.x + 1) * w, (b.y + 1) * w, (b.z + 1) * w)]

\* C11: when a payload is stored at Bounds B and a brush is applied whose
\* bounds cover exactly B's region, with min_lg_size = B.lg_size and generate
\* declining, get(B) afterwards returns the payload as the Voxel brush
\* operation changed it, B's node is still Allocated, and lg_size is unchanged.
C11_BrushInPlace ==
  [][lastOp'.op = "brush" =>
       LET br  == lastOp'.brush.brush
           gen == lastOp'.brush.gen
       IN  \A b \in BoundsSet :
             ( /\ b.lg_size >= 0
               /\ IsSome(Lookup(b))
               /\ br.bounds = RegionBox(b)
               /\ br.min_lg_size = b.lg_size
               /\ gen[1] = "decline" ) =>
               /\ get(SelfNext, b).ret = Some(Voxel_brush(Unwrap(Lookup(b)), b, br))
               /\ IsSome(get_pointer(SelfNext, b).ret)
               /\ IsBranches(contents', Unwrap(get_pointer(SelfNext, b).ret))
               /\ lg_size' = lg_size]_vars

\* A declining brush that covered exactly the region of a written voxel with
\* a negative coordinate, at that voxel's lg_size, and changed its payload.
C11_Witness ==
  /\ lastOp.op = "brush"
  /\ lastOp.brush.gen[1] = "decline"
  /\ \E b \in BoundsSet :
       /\ b.lg_size >= 0 /\ b.y < 0
       /\ lastOp.brush.brush.bounds = RegionBox(b)
       /\ lastOp.brush.brush.min_lg_size = b.lg_size
       /\ \E k \in 1 .. Len(log) :
            /\ log[k].bounds = b
            /\ log[k].calls[1].ev = "voxel_brush"
            /\ log[k].calls[1].voxel \in {Some(v) : v \in Payloads}
       /\ Lookup(b) = Some(Erased)

\* C12: in every reachable state every Allocated node lies on the
\* root-to-target path of some Bounds that was written (passed to
\* get_mut_or_create, or visited by a brush); growth allocates nothing for
\* untouched regions.
C12_LazyAllocation ==
  \A q \in DOMAIN contents :
    \E b \in addressed : contains_bounds(Self, b) /\ IsPrefix(q, PathTo(Self, b))

\* Where the node at path q is after k doublings of the root: below the new
\* top-level node of its octant, in the diagonally opposite slot.
RECURSIVE Rehomed(_, _)
Rehomed(q, k) ==
  IF k = 0 THEN q ELSE Rehomed(<<q[1], 7 - q[1]>> \o Tail(q), k - 1)

GrowingOps == {"grow_to_hold", "get_mut_or_create", "write"}

\* Every node Allocated before the step is Allocated after it, and a payload
\* it held has not been removed (a brush may change it).
NodesKept ==
  \A q \in DOMAIN contents :
    LET r == Rehomed(q, lg_size' - lg_size)
    IN  /\ IsBranches(contents', r)
        /\ IF lastOp'.op = "brush"
             THEN IsSome(contents[q]) => IsSome(contents'[r])
             ELSE contents'[r] = contents[q]

\* C13: a new tree has lg_size 0 and 8 Empty root slots; lg_size never
\* decreases and changes only inside grow_to_hold (and get_mut_or_create
\* through it); grow_to_hold, the traversal of get_mut_or_create, brush and
\* the reads never turn an Allocated node into Empty nor remove a payload
\* (stated for the calls that return).
C13_MonotoneLifecycle ==
  /\ (nOps = 0 => (lg_size = 0 /\ \A o \in Octants : IsEmpty(contents, <<o>>)))
  /\ [][/\ lg_size' >= lg_size
        /\ lg_size' # lg_size => lastOp'.op \in GrowingOps
        /\ (status' = "ok" /\ lastOp'.op # "write") => NodesKept]_vars

\* A grow_to_hold that doubled a tree holding a written payload.
C13_Witness ==
  /\ lastOp.op = "grow_to_hold" /\ status = "ok"
  /\ nOps = 2 /\ lg_size >= 1
  /\ \E b \in DOMAIN written :
       /\ contains_bounds([lg_size |-> 0], b)
       /\ \E q \in DOMAIN contents : Len(q) >= 2 /\ contents[q] = Some(written[b])

\* Bit i of the two's complement coordinate x.
Bit(x, i) == (x \div (2 ^ i)) % 2

\* The octant selections that lead to Bounds b in a tree of exponent t: the
\* first by the sign of each coordinate, selection j > 1 by bit t - L + 1 - j.
ExactPath(t, b) ==
  LET n == (t - b.lg_size) + 1
      sign(x) == IF x >= 0 THEN 1 ELSE 0
  IN  [j \in 1 .. n |->
         IF j = 1 THEN Slot(sign(b.x), sign(b.y), sign(b.z))
         ELSE Slot(Bit(b.x, n - j), Bit(b.y, n - j), Bit(b.z, n - j))]

\* The tree with every node on the way to b forced.
Forced(self, b) ==
  get_mut_or_create_loop(to_voxel_mut(self, b), self.contents, << >>).contents

\* C14: for every tree exponent T >= 0 and every Bounds b with
\* contains_bounds(b), of any lg_size L, both traversals make exactly
\* T - L + 1 octant selections, the first by coordinate sign and the later
\* ones by the mask bit, and end at the node of b's exact resolution.
C14_TraversalExact ==
  \A b \in BoundsSet :
    contains_bounds(Self, b) =>
      /\ PathTo(Self, b) = ExactPath(lg_size, b)
      /\ ToVoxelMut_last(to_voxel_mut(Self, b), Forced(Self, b), << >>)
           = Some(ExactPath(lg_size, b))
      /\ ToVoxel_last(to_voxel(Self, b), Forced(Self, b), << >>)
           = Some(ExactPath(lg_size, b))

\* Whether the 32-bit shifts of contains_bounds or of the traversal mask lose
\* bits for Bounds b in a tree of exponent t: 2^(t - L) does not fit an i32.
LosesBits(t, b) == b.lg_size < 0 /\ t - b.lg_size >= I32Bits - 1

\* C15: a call given a Bounds extreme enough that the 32-bit shifts of
\* contains_bounds or of the traversal mask lose bits reports a fatal
\* condition; it does not return a wrong contains_bounds answer, reach a
\* wrong node, or loop in grow_to_hold with the overflow unflagged.
C15_NoSilentOverflow ==
  [][(lastOp'.op # "brush" /\ LosesBits(lg_size, lastOp'.bounds))
       => status' = "panic"]_vars

\* When the ray enters the voxel on axis a (for an axis that moves).
EnterTime(bounds, ray, a) ==
  IF ray.dir[a] > 0 THEN Low(bounds, a) - ray.origin[a]
  ELSE ray.origin[a] - High(bounds, a)

\* The distance at which the ray is first inside the voxel.
EnterAt(bounds, ray) ==
  LET e(a) == IF ray.dir[a] = 0 THEN 0 ELSE EnterTime(bounds, ray, a)
  IN  Max(0, Max(e(1), Max(e(2), e(3))))

\* The ray passes through the inside of the voxel.
Crosses(bounds, ray) ==
  /\ \A a \in 1 .. 3 :
       ray.dir[a] = 0 => (Low(bounds, a) <= ray.origin[a] /\ ray.origin[a] < High(bounds, a))
  /\ \A a \in 1 .. 3 : ray.dir[a] # 0 => EnterAt(bounds, ray) < ExitTime(bounds, ray, a)

\* The payload-bearing voxels of the tree the ray crosses: <<Bounds, payload>>.
Lit(ray) ==
  {<<PathBounds(lg_size, q), Unwrap(contents[q])>> :
     q \in {q \in DOMAIN contents :
              IsSome(contents[q]) /\ Crosses(PathBounds(lg_size, q), ray)}}

\* C16: cast_ray starts in the octant of the root that holds the ray origin
\* and calls act on payload-bearing voxels the ray crosses only, the nearer
\* before the farther, none of them skipped; the first present act result is
\* returned and ends the calls; the result is absent when no act call
\* returned a present one.
C16_RayOrder ==
  lastOp.op = "cast_ray" =>
    LET ray == lastOp.brush.ray
        n   == Len(log)
        hit == {k \in 1 .. n : IsSome(log[k].result)}
    IN  /\ \A k \in 1 .. n : <<log[k].bounds, log[k].voxel>> \in Lit(ray)
        /\ \A j, k \in 1 .. n :
             j < k => /\ EnterAt(log[j].bounds, ray) <= EnterAt(log[k].bounds, ray)
                      /\ log[j].bounds # log[k].bounds
        /\ \A m \in Lit(ray) :
             \/ \E k \in 1 .. n : log[k].bounds = m[1]
             \/ \E k \in hit : EnterAt(log[k].bounds, ray) <= EnterAt(m[1], ray)
        /\ \A k \in hit : k = n /\ lastOp.ret = log[k].result
        /\ (lastOp.ret = None) <=> (hit = {})

\* A ray that met a payload act declined, then a farther one act accepted.
C16_Witness ==
  /\ lastOp.op = "cast_ray"
  /\ Len(log) >= 2
  /\ log[1].result = None
  /\ EnterAt(log[1].bounds, lastOp.brush.ray) < EnterAt(log[Len(log)].bounds, lastOp.brush.ray)
  /\ lastOp.ret = Some(<<log[Len(log)].bounds, 2>>)

\* A ray that crosses two payload-bearing voxels and whose act accepted the
\* nearer one: act was not called on the farther.
C16_WitnessShort ==
  /\ lastOp.op = "cast_ray"
  /\ Cardinality(Lit(lastOp.brush.ray)) >= 2
  /\ Len(log) = 1
  /\ lastOp.ret = log[1].result /\ IsSome(lastOp.ret)

\* A ray on which act never returned a result.
C16_WitnessAbsent ==
  /\ lastOp.op = "cast_ray"
  /\ Len(log) >= 2
  /\ lastOp.brush.act = "none"
  /\ lastOp.ret = None

\* The Bounds of the 8 top-level children of the tree: (x, y, z, lg_size)
\* with every coordinate -1 or 0.
TopLevelBounds == {bounds_new(x, y, z, lg_size) : x, y, z \in {-1, 0}}

\* lll = 0, llh = 1, lhl = 2, lhh = 3, hll = 4, hlh = 5, hhl = 6, hhh = 7:
\* low for a negative coordinate, high otherwise, x first and z last.
NamedChild(b) ==
  LET h(x) == IF x < 0 THEN 0 ELSE 1
  IN  (4 * h(b.x)) + (2 * h(b.y)) + h(b.z)

\* C17: in a tree of exponent T the 8 Bounds (x, y, z, T) with coordinates
\* in {-1, 0} resolve to the 8 distinct top-level children, the child named
\* per axis by the sign of the coordinate (lll at (-1,-1,-1), llh at
\* (-1,-1,0), ..., hhh at (0,0,0)), and get returns that child's own payload.
C17_TopLevelOctants ==
  \A b \in TopLevelBounds :
    /\ contains_bounds(Self, b)
    /\ get_pointer(Self, b).ret = Some(<<NamedChild(b)>>)
    /\ get(Self, b).ret = Inner_voxel(contents, <<NamedChild(b)>>)
    /\ \A b2 \in TopLevelBounds : b2 # b => NamedChild(b2) # NamedChild(b)

\* get on a top-level Bounds of a grown tree that returned the payload of
\* its child, while another top-level child holds none.
C17_Witness ==
  /\ lastOp.op = "get" /\ lg_size >= 1
  /\ lastOp.bounds \in TopLevelBounds
  /\ lastOp.bounds.x < 0
  /\ IsSome(lastOp.ret)
  /\ lastOp.ret = contents[<<NamedChild(lastOp.bounds)>>]
  /\ \E o \in Octants : Inner_voxel(contents, <<o>>) = None

\* Bounds of the child in slot i of the node with Bounds b:
\* (2x + ox, 2y + oy, 2z + oz, lg_size - 1).
HalvedBounds(b, i) ==
  bounds_new((2 * b.x) + (i \div 4), (2 * b.y) + ((i \div 2) % 2), (2 * b.z) + (i % 2),
             b.lg_size - 1)

\* Inner::brush goes past its two early returns for a node with Bounds b.
Entered(b, br) == brush_overlaps(b, br.bounds) /\ b.lg_size >= br.min_lg_size

\* C18: brush is depth-first and pre-order - the callbacks of a node come
\* before those of any node below it, and the nodes below it follow it
\* without a gap; it enters all 8 children of a node it visits, with the
\* halved Bounds, also when the node has no payload and generate declined;
\* and it ends: a node one level down has lg_size one less, and no node
\* below min_lg_size is visited.
C18_BrushPreOrder ==
  lastOp.op = "brush" =>
    LET br == lastOp.brush.brush
        n  == Len(log)
    IN  /\ \A j, k \in 1 .. n :
             (j # k /\ IsPrefix(log[j].path, log[k].path)) =>
               /\ j < k
               /\ \A m \in j .. k : IsPrefix(log[j].path, log[m].path)
        /\ \A k \in 1 .. n :
             /\ log[k].calls # << >>
             /\ \A c \in 1 .. Len(log[k].calls) : log[k].calls[c].bounds = log[k].bounds
             /\ log[k].bounds.lg_size = lg_size - (Len(log[k].path) - 1)
             /\ log[k].bounds.lg_size >= br.min_lg_size
             /\ Len(log[k].path) > 1 =>
                  \E j \in 1 .. n : log[j].path = SubSeq(log[k].path, 1, Len(log[k].path) - 1)
             /\ \A i \in Octants :
                  Entered(HalvedBounds(log[k].bounds, i), br) =>
                    \E m \in (k + 1) .. n :
                      /\ log[m].path = Append(log[k].path, i)
                      /\ log[m].bounds = HalvedBounds(log[k].bounds, i)
        /\ \A i \in Octants :
             Entered(top_bounds(Self, i), br) =>
               \E m \in 1 .. n : log[m].path = <<i>> /\ log[m].bounds = top_bounds(Self, i)

\* A brush whose generate declined for a node without payload and that
\* visited all 8 children of that node all the same.
C18_Witness ==
  /\ lastOp.op = "brush"
  /\ \E k \in 1 .. Len(log) :
       /\ log[k].data = None
       /\ log[k].calls = <<Event("generate", log[k].bounds, None)>>
       /\ \A i \in Octants :
            \E m \in (k + 1) .. Len(log) : log[m].path = Append(log[k].path, i)

\* C19: brush and the traversals agree on addresses, for every tree exponent
\* (0 included) and every brush (negative min_lg_size included): a node brush
\* visited under Bounds B is the node get_pointer(B) reaches afterwards and
\* the node get_mut_or_create(B) writes to, and the payload brush left in it
\* is what get(B) returns.
C19_BrushAddresses ==
  lastOp.op = "brush" =>
    \A k \in 1 .. Len(log) :
      LET b == log[k].bounds
      IN  /\ get_pointer(Self, b).ret = Some(log[k].path)
          /\ PathTo(Self, b) = log[k].path
          /\ Lookup(b) = log[k].data

\* The same for the trees of lg_size >= 1 and the nodes of lg_size >= 0 of
\* the new tree, where the traversal mask is not zero from the start.
C19_HoldsWhereMaskIsSet ==
  lastOp.op = "brush" =>
    \A k \in 1 .. Len(log) :
      LET b == log[k].bounds
      IN  (lg_size >= 1 \/ b.lg_size >= 0) =>
            /\ get_pointer(Self, b).ret = Some(log[k].path)
            /\ PathTo(Self, b) = log[k].path
            /\ Lookup(b) = log[k].data

=============================================================================
